---- MODULE Spec2Model ----
(***************************************************************************)
(* Replorer (src/main.cpp): capture the open Explorer folders, terminate   *)
(* every explorer.exe, reopen the captured folders.                        *)
(*                                                                         *)
(* Wide strings are sequences of wchar_t code units (0..65535); reading    *)
(* one position past the last unit yields the terminating NUL, as it does  *)
(* for a C string.  NULL is the null pointer.                              *)
(***************************************************************************)
EXTENDS Integers, Sequences, FiniteSets, TLC

VARIABLES
    \* ---- urlToPath run on its own (specification CodecSpec)
    url,        \* the argument of urlToPath
    p,          \* offset of the read pointer p into url
    path,       \* the local `out` of urlToPath, and then its return value
    upc,        \* position inside urlToPath: "idle", "entry", "loop", "ret"
    native,     \* the native path url was encoded from, NULL when url is raw input
    \* ---- the whole program (specification Spec)
    pc,         \* position in wmain and its callees
    windows,    \* the shell's window collection (environment)
    opened,     \* wmain's vector `opened`, `out` in collectOpenFolderPaths
    needUninit, \* collectOpenFolderPaths: SUCCEEDED(CoInitializeEx)
    sw,         \* collectOpenFolderPaths: sw is non-null
    gotCount,   \* collectOpenFolderPaths: SUCCEEDED(get_Count)
    count,      \* collectOpenFolderPaths: count
    i,          \* collectOpenFolderPaths: i
    disp,       \* collectOpenFolderPaths: disp is non-null
    app,        \* collectOpenFolderPaths: app is non-null
    burl,       \* collectOpenFolderPaths: burl (NULL or the string)
    live,       \* per automation resource, acquisitions minus releases
    snap,       \* killAllExplorer: "none", "invalid", "open", "closed"
    snapshot,   \* killAllExplorer: the entries of the snapshot (szExeFile)
    pe,         \* killAllExplorer: index of the snapshot entry held in pe, 0 before the first
    h,          \* killAllExplorer: h is non-null
    ops,        \* per snapshot entry, the calls made on its process
    holder,     \* per snapshot entry, what holds its th32ProcessID now (environment)
    target,     \* the process h refers to: "none", "snap", "new"
    killedNew,  \* TerminateProcess ended a process started after the snapshot
    ri,         \* reopenFolders: i
    ret,        \* result of the last call whose result the code discards
    trace,      \* calls and returns of the components, open-requests, delays
    exitStatus  \* wmain's return value, -1 while running

codecVars == <<url, p, path, upc, native>>
enumVars == <<needUninit, sw, gotCount, count, i, disp, app, burl, live>>
reapVars == <<snap, snapshot, pe, h, ops>>
osVars == <<holder, target, killedNew>>
mainVars == <<pc, windows, opened, enumVars, reapVars, osVars, ri, ret, trace,
              exitStatus>>
vars == <<codecVars, mainVars>>

-----------------------------------------------------------------------------
(* Characters *)

NUL == 0
SLASH == 47
BACKSLASH == 92
PERCENT == 37
WCHAR_MOD == 65536

NULL == <<-1>>

\* "file:///"
FilePrefix == <<102, 105, 108, 101, 58, 47, 47, 47>>
PrefixLen == 8

\* *(s + k) for a NUL-terminated string
At(s, k) == IF k < Len(s) THEN s[k + 1] ELSE NUL

-----------------------------------------------------------------------------
(* startsWith, main.cpp:43-48 *)

\* startsWithFrom comparing without regard to letter case
RECURSIVE startsWithFromIgnoreCase(_, _, _)
startsWithFromIgnoreCase(s, prefix, k) ==
    LET fold(c) == IF c \in 65..90 THEN c + 32 ELSE c
    IN  IF At(prefix, k) = NUL THEN TRUE
        ELSE IF fold(At(s, k)) # fold(At(prefix, k)) THEN FALSE
        ELSE startsWithFromIgnoreCase(s, prefix, k + 1)

RECURSIVE startsWithFrom(_, _, _)
startsWithFrom(s, prefix, k) ==
    IF At(prefix, k) = NUL THEN TRUE
    ELSE IF At(s, k) # At(prefix, k) THEN FALSE
    ELSE startsWithFrom(s, prefix, k + 1)

startsWith(s, prefix) ==
    IF s = NULL \/ prefix = NULL THEN FALSE
    ELSE startsWithFrom(s, prefix, 0)

-----------------------------------------------------------------------------
(* wcstol(hex, &end, 16) as the C library computes it: leading white space *)
(* is skipped, one sign is accepted, then hexadecimal digits are read.     *)
(* The result is the value and the offset `end` of the first unread unit;  *)
(* with no digit read, end is the start of the string.                     *)

iswspace(c) == c \in {9, 10, 11, 12, 13, 32}

IsSign(c) == c \in {43, 45}

\* HexVal that knows the digits and the capital letters only
HexValUpperOnly(c) ==
    IF c \in 48..57 THEN c - 48
    ELSE IF c \in 65..70 THEN c - 55
    ELSE -1

\* value of a hexadecimal digit, -1 for any other unit
HexVal(c) ==
    IF c \in 48..57 THEN c - 48
    ELSE IF c \in 65..70 THEN c - 55
    ELSE IF c \in 97..102 THEN c - 87
    ELSE -1

RECURSIVE SkipSpace(_, _)
SkipSpace(s, k) == IF iswspace(At(s, k)) THEN SkipSpace(s, k + 1) ELSE k

\* [v, end, n]: value, offset after the last digit, number of digits read
RECURSIVE ReadDigits(_, _, _, _)
ReadDigits(s, k, acc, n) ==
    IF HexVal(At(s, k)) >= 0
    THEN ReadDigits(s, k + 1, 16 * acc + HexVal(At(s, k)), n + 1)
    ELSE [v |-> acc, end |-> k, n |-> n]

wcstol(s) ==
    LET k1 == SkipSpace(s, 0)
        neg == At(s, k1) = 45
        k2 == IF IsSign(At(s, k1)) THEN k1 + 1 ELSE k1
        \* a "0x" prefix is part of the number only when a digit follows it
        k3 == IF /\ At(s, k2) = 48
                 /\ At(s, k2 + 1) \in {88, 120}
                 /\ HexVal(At(s, k2 + 2)) >= 0
              THEN k2 + 2 ELSE k2
        r == ReadDigits(s, k3, 0, 0)
    IN  IF r.n = 0 THEN [v |-> 0, end |-> 0]
        ELSE [v |-> IF neg THEN 0 - r.v ELSE r.v, end |-> r.end]

\* (wchar_t)v on a 16-bit wchar_t
ToWchar(v) == v % WCHAR_MOD

-----------------------------------------------------------------------------
(* urlToPath, main.cpp:57-75 *)

\* one iteration of `while (*p)`, main.cpp:63-72
urlToPathStep(u, k, out) ==
    IF At(u, k) = SLASH
    THEN [p |-> k + 1, out |-> Append(out, BACKSLASH)]
    ELSE IF At(u, k) = PERCENT /\ At(u, k + 1) # NUL /\ At(u, k + 2) # NUL
    THEN LET hex == <<At(u, k + 1), At(u, k + 2)>>
             r == wcstol(hex)
         IN  IF At(hex, r.end) = NUL
             THEN [p |-> k + 3, out |-> Append(out, ToWchar(r.v))]
             ELSE [p |-> k + 1, out |-> Append(out, At(u, k))]
    ELSE [p |-> k + 1, out |-> Append(out, At(u, k))]

\* the loop `while (*p)`, main.cpp:62-73, from offset k with out built so far
urlToPathLoop(u, k, out) ==
    LET loop[st \in [p : Nat, out : Seq(Nat)]] ==
            IF At(u, st.p) = NUL THEN st.out
            ELSE loop[urlToPathStep(u, st.p, st.out)]
    IN  loop[[p |-> k, out |-> out]]

\* main.cpp:59: the guard that returns {}
urlToPathRejects(u) == u = NULL \/ ~startsWith(u, FilePrefix)

urlToPath(u) ==
    IF urlToPathRejects(u) THEN <<>> ELSE urlToPathLoop(u, PrefixLen, <<>>)

-----------------------------------------------------------------------------
(* Inputs of urlToPath when it is run on its own *)

MaxTail == 3
MaxPathLen == 2

\* '/', '%', '4', '1', 'c', '+', '-', ' ', 'g'
TailAlphabet == {47, 37, 52, 49, 99, 43, 45, 32, 103}

SeqsUpTo(S, n) == UNION {[1..m -> S] : m \in 0..n}

\* "file:///", "file://", "FILE:///", "http:///", ""
Heads ==
    { FilePrefix,
      <<102, 105, 108, 101, 58, 47, 47>>,
      <<70, 73, 76, 69, 58, 47, 47, 47>>,
      <<104, 116, 116, 112, 58, 47, 47, 47>>,
      <<>> }

RawInputs == {NULL} \cup {hd \o t : hd \in Heads, t \in SeqsUpTo(TailAlphabet, MaxTail)}

\* the hexadecimal digit of n, in either letter case
HexDigit(n, upper) ==
    IF n < 10 THEN 48 + n ELSE IF upper THEN 55 + n ELSE 87 + n

\* native path characters: '\', 'A', ' ', '+', 'k', U+00E9, and the reserved
\* '/' and '%' (which a path free of reserved characters does not hold)
NativeAlphabet == {92, 65, 32, 43, 107, 233, 47, 37}
Reserved == {47, 37}

NativePaths == SeqsUpTo(NativeAlphabet, MaxPathLen)

\* how one character is written: 0 as itself, 1 as %XX, 2 as %xx
Modes == {0, 1, 2}

EncodeChar(c, m) ==
    IF c = BACKSLASH THEN <<SLASH>>
    ELSE IF m = 0 THEN <<c>>
    ELSE <<PERCENT, HexDigit(c \div 16, m = 1), HexDigit(c % 16, m = 1)>>

RECURSIVE EncodeFrom(_, _, _)
EncodeFrom(np, ms, k) ==
    IF k > Len(np) THEN <<>>
    ELSE EncodeChar(np[k], ms[k]) \o EncodeFrom(np, ms, k + 1)

\* the local-file identifier of native path np, its characters written as ms says
Encode(np, ms) == FilePrefix \o EncodeFrom(np, ms, 1)

ModesFor(np) == [1..Len(np) -> Modes]

-----------------------------------------------------------------------------
(* The environment of one run *)

MaxWindows == 2
MaxProcs == 2

\* "file:///C:/a%20b" and "file:///D:"
UrlDocs == FilePrefix \o <<67, 58, 47, 97, 37, 50, 48, 98>>
UrlDrive == FilePrefix \o <<68, 58>>

\* a window: does Item yield it, does it answer IID_IWebBrowserApp, and what
\* get_LocationURL yields (NULL: failure or no string; "": a virtual folder)
WindowKinds ==
    { [item |-> FALSE, qi |-> FALSE, url |-> NULL],
      [item |-> TRUE, qi |-> FALSE, url |-> NULL],
      [item |-> TRUE, qi |-> TRUE, url |-> NULL] }
    \cup { [item |-> TRUE, qi |-> TRUE, url |-> u] :
             u \in {<<>>, UrlDocs, UrlDrive} }

\* L"explorer.exe", main.cpp:133
ExplorerExe == <<101, 120, 112, 108, 111, 114, 101, 114, 46, 101, 120, 101>>

\* szExeFile of the snapshot entries: "Explorer.EXE" and "iexplore.exe"
ExeNames ==
    { <<69, 120, 112, 108, 111, 114, 101, 114, 46, 69, 88, 69>>,
      <<105, 101, 120, 112, 108, 111, 114, 101, 46, 101, 120, 101>> }

Snapshots == SeqsUpTo(ExeNames, MaxProcs)

Resources == {"com", "sw", "disp", "app", "burl"}

NoOps == [open |-> 0, opened |-> FALSE, term |-> 0, wait |-> 0, close |-> 0]

Event(op, arg) == [op |-> op, arg |-> arg]

\* the program's variables while urlToPath is run on its own
MainParked ==
    /\ pc = "idle"
    /\ windows = <<>>
    /\ opened = <<>>
    /\ needUninit = FALSE /\ sw = FALSE /\ gotCount = FALSE
    /\ count = 0 /\ i = 0
    /\ disp = FALSE /\ app = FALSE /\ burl = NULL
    /\ live = [r \in Resources |-> 0]
    /\ snap = "none" /\ snapshot = <<>> /\ pe = 0 /\ h = FALSE /\ ops = <<>>
    /\ holder = <<>> /\ target = "none" /\ killedNew = FALSE
    /\ ri = 0
    /\ ret = "none"
    /\ trace = <<>>
    /\ exitStatus = -1

\* urlToPath's variables while the program runs
CodecParked ==
    /\ url = NULL /\ p = 0 /\ path = <<>> /\ upc = "idle" /\ native = NULL

-----------------------------------------------------------------------------
(* urlToPath step by step *)

CodecInit ==
    /\ \/ url \in RawInputs /\ native = NULL
       \/ \E np \in NativePaths : \E ms \in ModesFor(np) :
            url = Encode(np, ms) /\ native = np
    /\ p = 0
    /\ path = <<>>
    /\ upc = "entry"
    /\ MainParked

\* main.cpp:59
urlToPathReject ==
    /\ upc = "entry"
    /\ urlToPathRejects(url)
    /\ path' = <<>>
    /\ upc' = "ret"
    /\ UNCHANGED <<url, p, native, mainVars>>

\* main.cpp:60-61
urlToPathEnter ==
    /\ upc = "entry"
    /\ ~urlToPathRejects(url)
    /\ p' = PrefixLen
    /\ path' = <<>>
    /\ upc' = "loop"
    /\ UNCHANGED <<url, native, mainVars>>

\* main.cpp:62-73
urlToPathIterate ==
    /\ upc = "loop"
    /\ At(url, p) # NUL
    /\ LET s == urlToPathStep(url, p, path)
       IN  p' = s.p /\ path' = s.out
    /\ UNCHANGED <<url, upc, native, mainVars>>

\* main.cpp:74
urlToPathReturn ==
    /\ upc = "loop"
    /\ At(url, p) = NUL
    /\ upc' = "ret"
    /\ UNCHANGED <<url, p, path, native, mainVars>>

CodecNext ==
    \/ urlToPathReject
    \/ urlToPathEnter
    \/ urlToPathIterate
    \/ urlToPathReturn

CodecSpec == CodecInit /\ [][CodecNext]_vars

-----------------------------------------------------------------------------
(* The program: wmain and its callees, one action per call or statement *)

Init ==
    /\ CodecParked
    /\ pc = "w_collect"
    /\ windows \in SeqsUpTo(WindowKinds, MaxWindows)
    /\ opened = <<>>
    /\ needUninit = FALSE /\ sw = FALSE /\ gotCount = FALSE
    /\ count = 0 /\ i = 0
    /\ disp = FALSE /\ app = FALSE /\ burl = NULL
    /\ live = [r \in Resources |-> 0]
    /\ snap = "none" /\ snapshot = <<>> /\ pe = 0 /\ h = FALSE /\ ops = <<>>
    /\ holder = <<>> /\ target = "none" /\ killedNew = FALSE
    /\ ri = 0
    /\ ret = "none"
    /\ trace = <<>>
    /\ exitStatus = -1

Acquire(r) == live' = [live EXCEPT ![r] = @ + 1]
Release(r) == live' = [live EXCEPT ![r] = @ - 1]

\* main.cpp:178 and 85: wmain calls collectOpenFolderPaths, which clears out
collectClear ==
    /\ pc = "w_collect"
    /\ opened' = <<>>
    /\ trace' = Append(trace, Event("collect.call", <<>>))
    /\ pc' = "c_init"
    /\ UNCHANGED <<codecVars, osVars, windows, enumVars, reapVars, ri, ret, exitStatus>>

\* main.cpp:87-88
collectCoInitialize ==
    /\ pc = "c_init"
    /\ \E ok \in BOOLEAN :
         /\ needUninit' = ok
         /\ IF ok THEN Acquire("com") ELSE UNCHANGED live
    /\ pc' = "c_create"
    /\ UNCHANGED <<codecVars, osVars, windows, opened, sw, gotCount, count, i, disp, app, burl,
                   reapVars, ri, ret, trace, exitStatus>>

\* main.cpp:90-92
collectCreateInstance ==
    /\ pc = "c_create"
    /\ \E ok \in BOOLEAN :
         /\ sw' = ok
         /\ IF ok THEN Acquire("sw") ELSE UNCHANGED live
         /\ pc' = IF ok THEN "c_count" ELSE "c_uninit"
    /\ UNCHANGED <<codecVars, osVars, windows, opened, needUninit, gotCount, count, i, disp, app,
                   burl, reapVars, ri, ret, trace, exitStatus>>

\* collectGetCount without the SUCCEEDED test: the loop runs on failure too
collectGetCountUnchecked ==
    /\ pc = "c_count"
    /\ \E ok \in BOOLEAN : gotCount' = ok
    /\ count' = Len(windows)
    /\ pc' = "c_loop"
    /\ i' = 0
    /\ UNCHANGED <<codecVars, osVars, windows, opened, needUninit, sw, disp, app, burl,
                   live, reapVars, ri, ret, trace, exitStatus>>

\* main.cpp:93-95
collectGetCount ==
    /\ pc = "c_count"
    /\ \E ok \in BOOLEAN :
         /\ gotCount' = ok
         /\ count' = IF ok THEN Len(windows) ELSE 0
         /\ pc' = IF ok THEN "c_loop" ELSE "c_relsw"
    /\ i' = 0
    /\ UNCHANGED <<codecVars, osVars, windows, opened, needUninit, sw, disp, app, burl, live,
                   reapVars, ri, ret, trace, exitStatus>>

\* main.cpp:96
collectLoop ==
    /\ pc = "c_loop"
    /\ pc' = IF i < count THEN "c_item" ELSE "c_relsw"
    /\ UNCHANGED <<codecVars, osVars, windows, opened, enumVars, reapVars, ri, ret, trace, exitStatus>>

\* collectItem that skips a window it cannot fetch without ++i
collectItemContinue ==
    /\ pc = "c_item"
    /\ disp' = windows[i + 1].item
    /\ IF disp' THEN Acquire("disp") ELSE UNCHANGED live
    /\ pc' = IF disp' THEN "c_qi" ELSE "c_loop"
    /\ UNCHANGED <<codecVars, osVars, windows, opened, needUninit, sw, gotCount, count,
                   i, app, burl, reapVars, ri, ret, trace, exitStatus>>

\* main.cpp:97-100
collectItem ==
    /\ pc = "c_item"
    /\ disp' = windows[i + 1].item
    /\ IF disp' THEN Acquire("disp") ELSE UNCHANGED live
    /\ pc' = IF disp' THEN "c_qi" ELSE "c_inc"
    /\ UNCHANGED <<codecVars, osVars, windows, opened, needUninit, sw, gotCount, count, i, app,
                   burl, reapVars, ri, ret, trace, exitStatus>>

\* main.cpp:101-102
collectQueryInterface ==
    /\ pc = "c_qi"
    /\ app' = windows[i + 1].qi
    /\ IF app' THEN Acquire("app") ELSE UNCHANGED live
    /\ pc' = IF app' THEN "c_url" ELSE "c_reldisp"
    /\ UNCHANGED <<codecVars, osVars, windows, opened, needUninit, sw, gotCount, count, i, disp,
                   burl, reapVars, ri, ret, trace, exitStatus>>

\* main.cpp:103-104
collectLocationURL ==
    /\ pc = "c_url"
    /\ burl' = windows[i + 1].url
    /\ IF burl' # NULL THEN Acquire("burl") ELSE UNCHANGED live
    /\ pc' = IF burl' # NULL THEN "c_push" ELSE "c_relapp"
    /\ UNCHANGED <<codecVars, osVars, windows, opened, needUninit, sw, gotCount, count, i, disp,
                   app, reapVars, ri, ret, trace, exitStatus>>

\* collectPush without the test of p.empty()
collectPushUnfiltered ==
    /\ pc = "c_push"
    /\ opened' = Append(opened, urlToPath(burl))
    /\ Release("burl")
    /\ burl' = NULL
    /\ pc' = "c_relapp"
    /\ UNCHANGED <<codecVars, osVars, windows, needUninit, sw, gotCount, count, i,
                   disp, app, reapVars, ri, ret, trace, exitStatus>>

\* main.cpp:105-107
collectPush ==
    /\ pc = "c_push"
    /\ LET np == urlToPath(burl)
       IN  opened' = IF np # <<>> THEN Append(opened, np) ELSE opened
    /\ Release("burl")
    /\ burl' = NULL
    /\ pc' = "c_relapp"
    /\ UNCHANGED <<codecVars, osVars, windows, needUninit, sw, gotCount, count, i, disp, app,
                   reapVars, ri, ret, trace, exitStatus>>

\* main.cpp:109
collectReleaseApp ==
    /\ pc = "c_relapp"
    /\ Release("app")
    /\ app' = FALSE
    /\ pc' = "c_reldisp"
    /\ UNCHANGED <<codecVars, osVars, windows, opened, needUninit, sw, gotCount, count, i, disp,
                   burl, reapVars, ri, ret, trace, exitStatus>>

\* main.cpp:111
collectReleaseDisp ==
    /\ pc = "c_reldisp"
    /\ Release("disp")
    /\ disp' = FALSE
    /\ pc' = "c_inc"
    /\ UNCHANGED <<codecVars, osVars, windows, opened, needUninit, sw, gotCount, count, i, app,
                   burl, reapVars, ri, ret, trace, exitStatus>>

\* main.cpp:113
collectIncrement ==
    /\ pc = "c_inc"
    /\ i' = i + 1
    /\ pc' = "c_loop"
    /\ UNCHANGED <<codecVars, osVars, windows, opened, needUninit, sw, gotCount, count, disp, app,
                   burl, live, reapVars, ri, ret, trace, exitStatus>>

\* main.cpp:116
collectReleaseSw ==
    /\ pc = "c_relsw"
    /\ Release("sw")
    /\ pc' = "c_uninit"
    /\ UNCHANGED <<codecVars, osVars, windows, opened, needUninit, sw, gotCount, count, i, disp,
                   app, burl, reapVars, ri, ret, trace, exitStatus>>

\* collectReturn that calls CoUninitialize whether or not needUninit
collectReturnAlwaysUninit ==
    /\ pc = "c_uninit"
    /\ Release("com")
    /\ trace' = Append(trace, Event("collect.ret", opened))
    /\ pc' = "w_kill"
    /\ UNCHANGED <<codecVars, osVars, windows, opened, needUninit, sw, gotCount, count,
                   i, disp, app, burl, reapVars, ri, ret, exitStatus>>

\* main.cpp:118-119: CoUninitialize when needed, then return to wmain
collectReturn ==
    /\ pc = "c_uninit"
    /\ IF needUninit THEN Release("com") ELSE UNCHANGED live
    /\ trace' = Append(trace, Event("collect.ret", opened))
    /\ pc' = "w_kill"
    /\ UNCHANGED <<codecVars, osVars, windows, opened, needUninit, sw, gotCount, count, i, disp,
                   app, burl, reapVars, ri, ret, exitStatus>>

-----------------------------------------------------------------------------
(* killAllExplorer, main.cpp:125-140 *)

ToLower(c) == IF c \in 65..90 THEN c + 32 ELSE c

\* lstrcmpW in place of lstrcmpiW: letter case counts
lstrcmpW(a, b) == IF a = b THEN 0 ELSE 1

\* lstrcmpiW: 0 exactly when the strings are equal ignoring letter case
lstrcmpiW(a, b) ==
    IF /\ Len(a) = Len(b)
       /\ \A j \in 1..Len(a) : ToLower(a[j]) = ToLower(b[j])
    THEN 0 ELSE 1

\* main.cpp:133
Matches(name) == lstrcmpiW(name, ExplorerExe) = 0

Called(f) == ops' = [ops EXCEPT ![pe] = [@ EXCEPT ![f] = @ + 1]]

\* killSnapshot reached only with something captured: the reaper is skipped
\* when the list is empty
killSnapshotUnlessEmpty ==
    /\ pc = "w_kill"
    /\ IF opened = <<>>
       THEN /\ pc' = "w_guard"
            /\ UNCHANGED <<trace, snap, snapshot, ops, holder>>
       ELSE /\ trace' = Append(trace, Event("kill.call", <<>>))
            /\ \E s \in Snapshots :
                 /\ snap' = "open"
                 /\ snapshot' = s
                 /\ ops' = [j \in 1..Len(s) |-> NoOps]
                 /\ holder' = [j \in 1..Len(s) |-> "snap"]
                 /\ pc' = "k_first"
    /\ UNCHANGED <<codecVars, target, killedNew, windows, opened, enumVars, pe, h, ri, ret,
                   exitStatus>>

\* main.cpp:181 and 127-128
killSnapshot ==
    /\ pc = "w_kill"
    /\ trace' = Append(trace, Event("kill.call", <<>>))
    /\ \/ /\ snap' = "invalid"
          /\ pc' = "k_ret"
          /\ UNCHANGED <<snapshot, ops, holder>>
       \/ \E s \in Snapshots :
            /\ snap' = "open"
            /\ snapshot' = s
            /\ ops' = [j \in 1..Len(s) |-> NoOps]
            /\ holder' = [j \in 1..Len(s) |-> "snap"]
            /\ pc' = "k_first"
    /\ UNCHANGED <<codecVars, target, killedNew, windows, opened, enumVars, pe, h, ri, ret,
                   exitStatus>>

\* main.cpp:130-131
killFirst ==
    /\ pc = "k_first"
    /\ IF Len(snapshot) > 0
       THEN pe' = 1 /\ pc' = "k_match"
       ELSE pe' = pe /\ pc' = "k_closesnap"
    /\ UNCHANGED <<codecVars, osVars, windows, opened, enumVars, snap, snapshot, h, ops, ri, ret,
                   trace, exitStatus>>

\* main.cpp:133
killMatch ==
    /\ pc = "k_match"
    /\ pc' = IF Matches(snapshot[pe]) THEN "k_open" ELSE "k_next"
    /\ UNCHANGED <<codecVars, osVars, windows, opened, enumVars, reapVars, ri, ret, trace, exitStatus>>

\* the loop is left at the first process that cannot be opened
killOpenProcessOrBreak ==
    /\ pc = "k_open"
    /\ \E ok \in BOOLEAN :
         /\ ok => holder[pe] # "none"
         /\ h' = ok
         /\ target' = IF ok THEN holder[pe] ELSE "none"
         /\ ops' = [ops EXCEPT ![pe] = [@ EXCEPT !.open = @ + 1, !.opened = ok]]
         /\ pc' = IF ok THEN "k_term" ELSE "k_closesnap"
    /\ UNCHANGED <<codecVars, holder, killedNew, windows, opened, enumVars, snap, snapshot,
                   pe, ri, ret, trace, exitStatus>>

\* main.cpp:134-135: OpenProcess and the test of h. The process is named by
\* pe.th32ProcessID: the call opens whatever holds that id when it is made,
\* and fails when nothing does (or when access is denied)
killOpenProcess ==
    /\ pc = "k_open"
    /\ \E ok \in BOOLEAN :
         /\ ok => holder[pe] # "none"
         /\ h' = ok
         /\ target' = IF ok THEN holder[pe] ELSE "none"
         /\ ops' = [ops EXCEPT ![pe] = [@ EXCEPT !.open = @ + 1, !.opened = ok]]
         /\ pc' = IF ok THEN "k_term" ELSE "k_next"
    /\ UNCHANGED <<codecVars, holder, killedNew, windows, opened, enumVars, snap, snapshot,
                   pe, ri, ret, trace, exitStatus>>

\* main.cpp:135: TerminateProcess(h, 0)
killTerminateProcess ==
    /\ pc = "k_term"
    /\ Called("term")
    /\ ret' \in {"ok", "failed"}
    /\ killedNew' = (killedNew \/ (ret' = "ok" /\ target = "new"))
    /\ pc' = "k_wait"
    /\ UNCHANGED <<codecVars, holder, target, windows, opened, enumVars, snap, snapshot, pe,
                   h, ri, trace, exitStatus>>

\* the handle is given up as lost when the wait times out
killWaitAbandonOnTimeout ==
    /\ pc = "k_wait"
    /\ Called("wait")
    /\ ret' \in {"signaled", "timeout", "failed"}
    /\ pc' = IF ret' = "timeout" THEN "k_next" ELSE "k_close"
    /\ UNCHANGED <<codecVars, osVars, windows, opened, enumVars, snap, snapshot, pe, h, ri,
                   trace, exitStatus>>

\* main.cpp:135: WaitForSingleObject(h, 2000)
killWait ==
    /\ pc = "k_wait"
    /\ Called("wait")
    /\ ret' \in {"signaled", "timeout", "failed"}
    /\ pc' = "k_close"
    /\ UNCHANGED <<codecVars, osVars, windows, opened, enumVars, snap, snapshot, pe, h, ri,
                   trace, exitStatus>>

\* main.cpp:135: CloseHandle(h)
killCloseHandle ==
    /\ pc = "k_close"
    /\ Called("close")
    /\ h' = FALSE
    /\ target' = "none"
    /\ ret' = "none"
    /\ pc' = "k_next"
    /\ UNCHANGED <<codecVars, holder, killedNew, windows, opened, enumVars, snap, snapshot,
                   pe, ri, trace, exitStatus>>

\* main.cpp:137: Process32NextW
killNext ==
    /\ pc = "k_next"
    /\ IF pe < Len(snapshot)
       THEN pe' = pe + 1 /\ pc' = "k_match"
       ELSE pe' = pe /\ pc' = "k_closesnap"
    /\ UNCHANGED <<codecVars, osVars, windows, opened, enumVars, snap, snapshot, h, ops, ri, ret,
                   trace, exitStatus>>

\* main.cpp:139
killCloseSnapshot ==
    /\ pc = "k_closesnap"
    /\ snap' = "closed"
    /\ pc' = "k_ret"
    /\ UNCHANGED <<codecVars, osVars, windows, opened, enumVars, snapshot, pe, h, ops, ri, ret,
                   trace, exitStatus>>

\* main.cpp:128 and 140: return to wmain
killReturn ==
    /\ pc = "k_ret"
    /\ trace' = Append(trace, Event("kill.ret", <<>>))
    /\ pc' = "w_guard"
    /\ UNCHANGED <<codecVars, osVars, windows, opened, enumVars, reapVars, ri, ret, exitStatus>>

-----------------------------------------------------------------------------
(* wmain's guard, reopenFolders (main.cpp:148-157), and the return *)

\* main.cpp:185-186 and 150
wmainGuard ==
    /\ pc = "w_guard"
    /\ IF opened # <<>>
       THEN /\ trace' = Append(trace, Event("reopen.call", <<>>))
            /\ ri' = 0
            /\ pc' = "r_loop"
       ELSE /\ UNCHANGED <<trace, ri>>
            /\ pc' = "w_return"
    /\ UNCHANGED <<codecVars, osVars, windows, opened, enumVars, reapVars, ret, exitStatus>>

\* reopenLoop that stops one path early
reopenLoopOffByOne ==
    /\ pc = "r_loop"
    /\ pc' = IF ri + 1 < Len(opened) THEN "r_exec" ELSE "w_return"
    /\ UNCHANGED <<codecVars, osVars, windows, opened, enumVars, reapVars, ri, ret,
                   trace, exitStatus>>

\* main.cpp:151
reopenLoop ==
    /\ pc = "r_loop"
    /\ pc' = IF ri < Len(opened) THEN "r_exec" ELSE "w_return"
    /\ UNCHANGED <<codecVars, osVars, windows, opened, enumVars, reapVars, ri, ret, trace, exitStatus>>

\* main.cpp:152: ShellExecuteW, its result discarded
reopenShellExecute ==
    /\ pc = "r_exec"
    /\ trace' = Append(trace, Event("open", opened[ri + 1]))
    /\ ret' \in {"ok", "failed"}
    /\ pc' = "r_sleep"
    /\ UNCHANGED <<codecVars, osVars, windows, opened, enumVars, reapVars, ri, exitStatus>>

\* the delay is made between two requests only, not after the last one
reopenSleepBetween ==
    /\ pc = "r_sleep"
    /\ trace' = IF ri + 1 < Len(opened)
                THEN Append(trace, Event("sleep", <<>>)) ELSE trace
    /\ ret' = "none"
    /\ pc' = "r_inc"
    /\ UNCHANGED <<codecVars, osVars, windows, opened, enumVars, reapVars, ri, exitStatus>>

\* main.cpp:154: Sleep(100)
reopenSleep ==
    /\ pc = "r_sleep"
    /\ trace' = Append(trace, Event("sleep", <<>>))
    /\ ret' = "none"
    /\ pc' = "r_inc"
    /\ UNCHANGED <<codecVars, osVars, windows, opened, enumVars, reapVars, ri, exitStatus>>

\* the list is consumed from its front instead of being indexed
reopenIncrementConsume ==
    /\ pc = "r_inc"
    /\ opened' = Tail(opened)
    /\ pc' = "r_loop"
    /\ UNCHANGED <<codecVars, osVars, windows, enumVars, reapVars, ri, ret, trace,
                   exitStatus>>

\* main.cpp:155
reopenIncrement ==
    /\ pc = "r_inc"
    /\ ri' = ri + 1
    /\ pc' = "r_loop"
    /\ UNCHANGED <<codecVars, osVars, windows, opened, enumVars, reapVars, ret, trace, exitStatus>>

\* main.cpp:188
wmainReturn ==
    /\ pc = "w_return"
    /\ exitStatus' = 0
    /\ pc' = "done"
    /\ UNCHANGED <<codecVars, osVars, windows, opened, enumVars, reapVars, ri, ret, trace>>

Next ==
    \/ collectClear
    \/ collectCoInitialize
    \/ collectCreateInstance
    \/ collectGetCount
    \/ collectLoop
    \/ collectItem
    \/ collectQueryInterface
    \/ collectLocationURL
    \/ collectPush
    \/ collectReleaseApp
    \/ collectReleaseDisp
    \/ collectIncrement
    \/ collectReleaseSw
    \/ collectReturn
    \/ killSnapshot
    \/ killFirst
    \/ killMatch
    \/ killOpenProcess
    \/ killTerminateProcess
    \/ killWait
    \/ killCloseHandle
    \/ killNext
    \/ killCloseSnapshot
    \/ killReturn
    \/ wmainGuard
    \/ reopenLoop
    \/ reopenShellExecute
    \/ reopenSleep
    \/ reopenIncrement
    \/ wmainReturn

Spec == Init /\ [][Next]_vars

\* the thread runs to completion: every call returns (the wait is bounded by
\* 2000 ms, the delay by 100 ms), so a step that can be taken is taken
FairSpec == Spec /\ WF_vars(Next)

-----------------------------------------------------------------------------
(* The operating system beside the reaper (specification RaceSpec) *)

\* the snapshot entries whose th32ProcessID the reaper has still to pass to
\* OpenProcess; what becomes of an id after that call has no bearing on
\* what the reaper does
Pending ==
    { j \in 1..Len(holder) : j > pe \/ (j = pe /\ pc \in {"k_match", "k_open"}) }

\* a process exits on its own while the reaper walks the snapshot; no handle
\* of the reaper keeps its id alive, the snapshot holds names and ids only
osProcessExit ==
    /\ snap = "open"
    /\ \E j \in Pending :
         /\ holder[j] # "none"
         /\ holder' = [holder EXCEPT ![j] = "none"]
    /\ UNCHANGED <<codecVars, pc, windows, opened, enumVars, reapVars, target, killedNew,
                   ri, ret, trace, exitStatus>>

\* the system starts a process (the relaunched explorer.exe, or any other)
\* and gives it an id that is free again. A process started under an id no
\* snapshot entry has is out of the reaper's reach and is not recorded: the
\* reaper passes only th32ProcessID of snapshot entries to OpenProcess
osProcessStart ==
    /\ snap = "open"
    /\ \E j \in Pending :
         /\ holder[j] = "none"
         /\ holder' = [holder EXCEPT ![j] = "new"]
    /\ UNCHANGED <<codecVars, pc, windows, opened, enumVars, reapVars, target, killedNew,
                   ri, ret, trace, exitStatus>>

\* at most one window is open: the reaper does not read the captured list
RaceInit == Init /\ Len(windows) <= 1

RaceNext ==
    \/ collectClear
    \/ collectCoInitialize
    \/ collectCreateInstance
    \/ collectGetCount
    \/ collectLoop
    \/ collectItem
    \/ collectQueryInterface
    \/ collectLocationURL
    \/ collectPush
    \/ collectReleaseApp
    \/ collectReleaseDisp
    \/ collectIncrement
    \/ collectReleaseSw
    \/ collectReturn
    \/ killSnapshot
    \/ killFirst
    \/ killMatch
    \/ killOpenProcess
    \/ killTerminateProcess
    \/ killWait
    \/ killCloseHandle
    \/ killNext
    \/ killCloseSnapshot
    \/ killReturn
    \/ wmainGuard
    \/ reopenLoop
    \/ reopenShellExecute
    \/ reopenSleep
    \/ reopenIncrement
    \/ wmainReturn
    \/ osProcessExit
    \/ osProcessStart

RaceSpec == RaceInit /\ [][RaceNext]_vars

-----------------------------------------------------------------------------
(* Properties of urlToPath (specification CodecSpec) *)

\* the identifier begins with exactly "file:///"
HasFilePrefix(u) ==
    /\ u # NULL
    /\ Len(u) >= Len(FilePrefix)
    /\ SubSeq(u, 1, Len(FilePrefix)) = FilePrefix

IsHexDigit(c) == c \in (48..57) \cup (65..70) \cup (97..102)

\* the single left-to-right pass of the specification over u from offset j:
\* '/' becomes '\', '%' and two hexadecimal digits become one character,
\* anything else (a '%' without two hexadecimal digits too) is copied
RECURSIVE SinglePass(_, _)
SinglePass(u, j) ==
    IF j >= Len(u) THEN <<>>
    ELSE IF u[j + 1] = SLASH THEN <<BACKSLASH>> \o SinglePass(u, j + 1)
    ELSE IF /\ u[j + 1] = PERCENT
            /\ j + 2 < Len(u)
            /\ IsHexDigit(u[j + 2]) /\ IsHexDigit(u[j + 3])
    THEN <<16 * HexVal(u[j + 2]) + HexVal(u[j + 3])>> \o SinglePass(u, j + 3)
    ELSE <<u[j + 1]>> \o SinglePass(u, j + 1)

\* C5: for every identifier that starts with "file:///", urlToPath returns
\* the single pass over the remainder: '/' to '\', '%' with two hexadecimal
\* digits to the character of that code, every other '%' and every other
\* character copied unchanged.
C5_SinglePass ==
    (upc = "ret" /\ HasFilePrefix(url)) => path = SinglePass(url, PrefixLen)

\* C6: for an absent identifier, or one that does not begin with exactly
\* "file:///", urlToPath returns the empty string, and it does so at once
\* (the rejecting return is the step it can take at its entry).
C6_RejectsOtherSchemes ==
    /\ (upc = "ret" /\ ~HasFilePrefix(url)) => path = <<>>
    /\ (upc = "entry" /\ ~HasFilePrefix(url)) => ENABLED urlToPathReject

\* a rejected identifier that is longer than the prefix
C6_Witness ==
    /\ upc = "ret"
    /\ url # NULL /\ Len(url) > PrefixLen /\ ~HasFilePrefix(url)
    /\ path = <<>>

FreeOfReserved(np) == \A j \in 1..Len(np) : np[j] \notin Reserved

\* C7: a native path free of reserved characters, written as a local-file
\* identifier (separators as '/', characters as themselves or as '%' and two
\* hexadecimal digits) and decoded by urlToPath, comes back unchanged.
C7_RoundTrip ==
    (upc = "ret" /\ native # NULL /\ FreeOfReserved(native)) => path = native

\* a two-character path with a separator and a percent-encoded character
C7_Witness ==
    /\ upc = "ret"
    /\ native # NULL /\ FreeOfReserved(native)
    /\ Len(native) = 2 /\ native[1] = BACKSLASH
    /\ Len(url) = PrefixLen + 4 /\ url[PrefixLen + 2] = PERCENT
    /\ path = native

-----------------------------------------------------------------------------
(* Properties of a run (specifications Spec and FairSpec) *)

\* the positions in trace of the events named op
At_(op) == {j \in 1..Len(trace) : trace[j].op = op}

\* collectOpenFolderPaths has returned; Captured is the list it returned
Returned == \E j \in 1..Len(trace) : trace[j].op = "collect.ret"
Captured == trace[CHOOSE j \in 1..Len(trace) : trace[j].op = "collect.ret"].arg

\* collectOpenFolderPaths has just returned to wmain (main.cpp:178 is done)
JustReturned == pc = "w_kill"

\* the targets of the open-requests issued so far, in the order issued
OpenEvents == SelectSeq(trace, LAMBDA e : e.op = "open")
Requested == [j \in 1..Len(OpenEvents) |-> OpenEvents[j].arg]

IsPrefix(a, b) == Len(a) <= Len(b) /\ SubSeq(b, 1, Len(a)) = a

\* C1: no open-request on an empty captured list; on N >= 1 captured paths
\* exactly N open-requests, the k-th for the k-th captured path, with a
\* pacing delay between every two consecutive requests.
C1_ReplayInCaptureOrder ==
    /\ ~Returned => Requested = <<>>
    /\ Returned => IsPrefix(Requested, Captured)
    /\ pc = "done" => Requested = Captured
    /\ \A a, b \in At_("open") :
         a < b => \E c \in At_("sleep") : a < c /\ c < b

\* a finished run that captured two different paths
C1_Witness ==
    /\ pc = "done"
    /\ Len(Captured) = 2 /\ Captured[1] # Captured[2]
    /\ Len(Requested) = 2

\* C2: killAllExplorer is called exactly once in every run, also when the
\* captured list is empty; it is called only after collectOpenFolderPaths
\* has returned, and has returned before the first open-request.
C2_ReaperOnceBetween ==
    /\ Cardinality(At_("kill.call")) <= 1
    /\ Cardinality(At_("kill.ret")) <= 1
    /\ pc = "done" =>
         Cardinality(At_("kill.call")) = 1 /\ Cardinality(At_("kill.ret")) = 1
    /\ \A a \in At_("kill.call") : \E b \in At_("collect.ret") : b < a
    /\ \A a \in At_("kill.ret") : \E b \in At_("kill.call") : b < a
    /\ \A a \in At_("open") : \E b \in At_("kill.ret") : b < a

\* a finished run with nothing captured, in which the reaper still ran
C2_Witness ==
    /\ pc = "done"
    /\ Captured = <<>>
    /\ Cardinality(At_("kill.call")) = 1
    /\ snap = "closed"

\* a window that is fetched, answers as a browser, has a location, and whose
\* location decodes to a non-empty path
IsRealFolder(w) ==
    w.item /\ w.qi /\ w.url # NULL /\ urlToPath(w.url) # <<>>

\* the decoded paths of the real folders among the first n windows, in order
RECURSIVE RealPaths(_, _)
RealPaths(ws, n) ==
    IF n = 0 THEN <<>>
    ELSE IF IsRealFolder(ws[n])
         THEN Append(RealPaths(ws, n - 1), urlToPath(ws[n].url))
         ELSE RealPaths(ws, n - 1)

\* C3: the returned list is, in window index order, the decoded paths of
\* the windows that were fetched, answer as a browser, have a location and
\* decode to a non-empty path (none can be fetched when the collection or
\* its count was not obtained); the list holds no empty string and no more
\* entries than there are windows.
C3_ListIsRealFoldersInOrder ==
    /\ pc = "c_loop" => opened = RealPaths(windows, i)
    /\ JustReturned =>
         /\ Captured = IF sw /\ gotCount
                       THEN RealPaths(windows, Len(windows)) ELSE <<>>
         /\ \A j \in 1..Len(Captured) : Captured[j] # <<>>
         /\ Len(Captured) <= Len(windows)

\* two windows enumerated, the first one excluded, the second one listed
C3_Witness ==
    /\ JustReturned
    /\ Len(windows) = 2
    /\ ~IsRealFolder(windows[1]) /\ IsRealFolder(windows[2])
    /\ Len(Captured) = 1

ToUpper(c) == IF c \in 97..122 THEN c - 32 ELSE c

\* the entry's executable name equals "explorer.exe" ignoring letter case
IsExplorer(name) ==
    LET upper == <<69, 88, 80, 76, 79, 82, 69, 82, 46, 69, 88, 69>>  \* "EXPLORER.EXE"
    IN  /\ Len(name) = Len(upper)
        /\ \A j \in 1..Len(name) : ToUpper(name[j]) = upper[j]

ReaperDone == snap = "closed"

\* C4: whatever the snapshot holds, the reaper attempts termination exactly
\* once per matching entry (one OpenProcess, and one TerminateProcess on the
\* handle it yields), and makes no call on the process of any other entry.
C4_OneAttemptPerMatch ==
    /\ \A j \in 1..Len(ops) :
         /\ ops[j].open <= 1 /\ ops[j].term <= 1 /\ ops[j].wait <= 1
         /\ ~IsExplorer(snapshot[j]) =>
              ops[j].open = 0 /\ ops[j].term = 0 /\ ops[j].wait = 0
                /\ ops[j].close = 0
    /\ ReaperDone =>
         \A j \in 1..Len(snapshot) :
           IsExplorer(snapshot[j]) =>
             /\ ops[j].open = 1
             /\ ops[j].term = (IF ops[j].opened THEN 1 ELSE 0)

\* a snapshot with two matching entries, both terminated
C4_Witness ==
    /\ ReaperDone
    /\ Len(snapshot) = 2
    /\ IsExplorer(snapshot[1]) /\ IsExplorer(snapshot[2])
    /\ ops[1].term = 1 /\ ops[2].term = 1

C9_TerminatesWithSuccess == <>[](pc = "done" /\ exitStatus = 0)

\* a finished run in which CoInitializeEx and the snapshot both failed and
\* two folders were nevertheless captured and requested
C9_Witness ==
    /\ pc = "done" /\ exitStatus = 0
    /\ ~needUninit
    /\ snap = "invalid"
    /\ Len(Requested) = 2

InCollect ==
    pc \in {"c_create", "c_count", "c_loop", "c_item", "c_qi", "c_url",
            "c_push", "c_relapp", "c_reldisp", "c_inc", "c_relsw", "c_uninit"}

\* C10: every automation resource the enumerator acquired is released
\* exactly once by the time it returns, the per-window ones before the next
\* window is fetched; nothing is released that is not held, and the
\* subsystem is torn down exactly when its initialization succeeded.
C10_ResourcesBalanced ==
    /\ \A r \in Resources : live[r] \in {0, 1}
    /\ pc = "c_item" => live["disp"] = 0 /\ live["app"] = 0 /\ live["burl"] = 0
    /\ InCollect => live["com"] = (IF needUninit THEN 1 ELSE 0)
    /\ Returned => \A r \in Resources : live[r] = 0

\* the enumerator has returned from a run that initialized the subsystem,
\* obtained the collection and read the location of two windows
C10_Witness ==
    /\ Returned
    /\ needUninit /\ sw /\ gotCount
    /\ Len(windows) = 2
    /\ windows[1].url # NULL /\ windows[2].url # NULL
    /\ \A r \in Resources : live[r] = 0


\* the reaper is between the name test of the entry held in pe and the
\* step to the next entry
InEntry == pc \in {"k_match", "k_open", "k_term", "k_wait", "k_close"}

\* the reaper has left snapshot entry j behind
EntryDone(j) == j < pe \/ (j = pe /\ ~InEntry)

\* C11: on every matching entry whose process was opened the reaper calls
\* TerminateProcess, then WaitForSingleObject once, then CloseHandle, all of
\* them before it touches the next entry; the handle is closed exactly once
\* whatever TerminateProcess and the wait returned, it is held nowhere
\* else, and the snapshot handle is closed before killAllExplorer returns.
C11_TerminateWaitCloseInOrder ==
    /\ \A j \in 1..Len(ops) :
         /\ ops[j].close <= ops[j].wait
         /\ ops[j].wait <= ops[j].term
         /\ ops[j].term <= (IF ops[j].opened THEN 1 ELSE 0)
         /\ j > pe => ops[j] = NoOps
         /\ (EntryDone(j) /\ ops[j].opened) =>
              ops[j].term = 1 /\ ops[j].wait = 1 /\ ops[j].close = 1
    /\ h <=> pc \in {"k_term", "k_wait", "k_close"}
    /\ pc = "k_term" => ops[pe].opened /\ ops[pe].term = 0
    /\ pc = "k_wait" => ops[pe].term = 1 /\ ops[pe].wait = 0
    /\ pc = "k_close" => ops[pe].wait = 1 /\ ops[pe].close = 0
    /\ pc = "k_close" => ret \in {"signaled", "timeout", "failed"}
    /\ (pc = "k_ret" \/ At_("kill.ret") # {}) => snap \in {"closed", "invalid"}

\* the first entry's process was terminated, waited for and released; the
\* wait on the second entry's process has timed out and its handle is about
\* to be released
C11_Witness ==
    /\ pc = "k_close" /\ ret = "timeout"
    /\ pe = 2
    /\ ops[1].term = 1 /\ ops[1].wait = 1 /\ ops[1].close = 1
    /\ ops[2].term = 1 /\ ops[2].wait = 1 /\ ops[2].close = 0
    /\ h


\* OpenProcess has just failed on the matching entry held in pe
OpenFailed ==
    pc = "k_next" /\ pe >= 1 /\ ops[pe].open = 1 /\ ~ops[pe].opened

\* TerminateProcess has just failed on the process of the entry held in pe
TerminateFailed == pc = "k_wait" /\ ret = "failed"

\* the walk reached the last entry, and every matching entry had its
\* OpenProcess, and its TerminateProcess when a handle was obtained
AllExamined ==
    /\ Len(snapshot) > 0 => pe = Len(snapshot)
    /\ \A j \in 1..Len(snapshot) :
         IsExplorer(snapshot[j]) =>
           /\ ops[j].open = 1
           /\ ops[j].opened => ops[j].term = 1

\* C12: a failed OpenProcess or TerminateProcess does not end the walk over
\* the snapshot: after either failure the reaper still reaches the end of
\* the snapshot, and when it is done every entry has been examined and
\* every matching entry has had its termination attempt.
C12_FailureDoesNotStopIteration ==
    /\ [](ReaperDone => AllExamined)
    /\ (OpenFailed \/ TerminateFailed) ~> (ReaperDone /\ AllExamined)

\* the first matching process could not be opened, the second one was
\* opened and its termination requested all the same
C12_Witness ==
    /\ ReaperDone
    /\ Len(snapshot) = 2
    /\ IsExplorer(snapshot[1]) /\ IsExplorer(snapshot[2])
    /\ ops[1].open = 1 /\ ~ops[1].opened
    /\ ops[2].opened /\ ops[2].term = 1


\* C13: whatever processes the system starts while the reaper walks its
\* snapshot and waits, TerminateProcess never ends a process that was
\* started after the snapshot was taken.
C13_NewProcessNeverKilled == ~killedNew


\* C14: from the return of collectOpenFolderPaths on, wmain's vector is
\* the list that was returned: killAllExplorer and every step of
\* reopenFolders leave its length, its elements and their order as they
\* were, and at the end of the run it is still that list.
C14_CapturedListUnchanged ==
    /\ Returned =>
         /\ Len(opened) = Len(Captured)
         /\ \A j \in 1..Len(opened) : opened[j] = Captured[j]
    /\ pc = "done" => opened = Captured

\* a finished run that captured two paths, terminated a process and
\* requested both paths, the vector still being the captured list
C14_Witness ==
    /\ pc = "done"
    /\ Len(Captured) = 2
    /\ opened = Captured
    /\ \E j \in 1..Len(ops) : ops[j].term = 1
    /\ At_("sleep") # {}

\* C15: reopenFolders calls Sleep once right after every ShellExecuteW, the
\* last one included, and nowhere else: every request is followed at once
\* by its delay, every delay follows a request at once, N paths give N
\* delays, and an empty list gives none.
C15_OneDelayAfterEachRequest ==
    /\ \A a \in At_("open") : a < Len(trace) => trace[a + 1].op = "sleep"
    /\ \A c \in At_("sleep") : c > 1 /\ trace[c - 1].op = "open"
    /\ Cardinality(At_("open")) =
         Cardinality(At_("sleep")) + (IF pc = "r_sleep" THEN 1 ELSE 0)
    /\ pc = "done" => Cardinality(At_("sleep")) = Len(Captured)
    /\ (Returned /\ Captured = <<>>) => At_("sleep") = {}

\* a finished run of two requests and two delays, the last event of the run
\* being the delay after the second request
C15_Witness ==
    /\ pc = "done"
    /\ Cardinality(At_("open")) = 2
    /\ Cardinality(At_("sleep")) = 2
    /\ trace[Len(trace)].op = "sleep"

====
